---------------------------- MODULE Spec2Model ----------------------------
(***************************************************************************)
(* A model of obutora/multiple_file_parser (package documentParser).       *)
(*                                                                         *)
(* Strings are sequences of Unicode code points (Go strings holding valid  *)
(* UTF-8).  An error is a TLA+ string naming the failure, "nil" is no      *)
(* error.  What the libraries the parsers call (archive/zip, encoding/xml, *)
(* excelize, ledongthuc/pdf) make of a byte sequence is part of the input: *)
(* a document is given by its decoded view.                                *)
(*                                                                         *)
(* SpecText applies the text functions of the sanitizer to bounded inputs; *)
(* SpecParse applies the entry points of one parser to one document.       *)
(***************************************************************************)
EXTENDS Integers, Sequences, FiniteSets, TLC

VARIABLES
    text,    \* SpecText: the input string
    fn,      \* SpecText: the text function called last ("none" before any call)
    arg,     \* SpecText: the argument of that call
    ret,     \* SpecText: its result
    calls,   \* SpecText: the number of calls made so far
    parser,  \* SpecParse: the concrete parser type the methods are called on
    doc,     \* SpecParse: the document (the decoded view of the bytes d)
    res,     \* SpecParse: per entry point, its result on doc, or NotCalled
    visit,   \* SpecParse: the order one range over the section map visited its keys
    readAt,  \* SpecParse: the calls of reader.ReadAt made by the parser's own code
    discr,   \* SpecRouter: the discriminator the caller passes (doc is the document)
    parsers, \* SpecRouter: f.parsers of the DocumentParserFactory f
    regs,    \* SpecRouter: the number of calls of f.RegisterParser so far
    lastCall \* SpecRouter: the last call of a method of f, its arguments and result

vars == <<text, fn, arg, ret, calls, parser, doc, res, visit, readAt, discr, parsers, regs, lastCall>>

textVars == <<text, fn, arg, ret, calls>>
parseVars == <<parser, doc, res, visit, readAt>>
routerVars == <<discr, parsers, regs, lastCall>>

----------------------------------------------------------------------------
(* Bounds *)

MaxRegs == 2       \* most calls of RegisterParser on one factory

MaxLen == 4        \* longest input over CoreAlphabet
MaxShort == 3      \* longest input over BoundaryAlphabet
MaxCalls == 2      \* sanitizeText is applied at most this many times in a row
MaxBody == 3       \* most elements in a document body
MaxRows == 2       \* most rows in a table
MaxEntries == 3    \* most files in a presentation archive
MaxSheets == 2     \* most sheets in a workbook
MaxPages == 2      \* most pages in a page document
MaxData == 2       \* longest plain-text input

----------------------------------------------------------------------------
(* Code points named by the source *)

SPACE == 32              \* ' '
TAB == 9                 \* "\t"
LF == 10                 \* "\n"
CR == 13                 \* "\r"
ReplacementChar == 65533 \* U+FFFD

CoreAlphabet == {SPACE, TAB, LF, CR, 65, ReplacementChar, 26085, 65313}
    \* ' ', tab, LF, CR, 'A', U+FFFD, U+65E5 (CJK ideograph), U+FF21 (full-width A)

BoundaryAlphabet ==
    {SPACE, 65,
     12351, 12352, 12447, 12448, 12543, 12544,   \* U+303F U+3040 U+309F U+30A0 U+30FF U+3100
     19967, 19968, 40879, 40880,                 \* U+4DFF U+4E00 U+9FAF U+9FB0
     65280, 65281, 65297, 65313, 65374, 65375}   \* U+FF00 U+FF01 U+FF11 U+FF21 U+FF5E U+FF5F

SeqsUpTo(S, n) == UNION {[1..k -> S] : k \in 0..n}

TextInputs == SeqsUpTo(CoreAlphabet, MaxLen) \cup SeqsUpTo(BoundaryAlphabet, MaxShort)

----------------------------------------------------------------------------
(* package strings *)

HasPrefix(s, prefix) ==
    Len(s) >= Len(prefix) /\ SubSeq(s, 1, Len(prefix)) = prefix

HasSuffix(s, suffix) ==
    Len(s) >= Len(suffix) /\ SubSeq(s, Len(s) - Len(suffix) + 1, Len(s)) = suffix

Contains(s, substr) ==
    \E i \in 1..(Len(s) - Len(substr) + 1) : SubSeq(s, i, i + Len(substr) - 1) = substr

\* strings.ReplaceAll with a non-empty old: non-overlapping matches, leftmost first.
RECURSIVE ReplaceAll(_, _, _)
ReplaceAll(s, old, new) ==
    IF Len(s) < Len(old) THEN s
    ELSE IF SubSeq(s, 1, Len(old)) = old
         THEN new \o ReplaceAll(SubSeq(s, Len(old) + 1, Len(s)), old, new)
         ELSE <<Head(s)>> \o ReplaceAll(Tail(s), old, new)

\* unicode.IsSpace
IsSpace(r) ==
    \/ r \in {9, 10, 11, 12, 13, 32, 133, 160, 5760, 8232, 8233, 8239, 8287, 12288}
    \/ r \in 8192..8202

RECURSIVE TrimLeft(_)
TrimLeft(s) == IF s # <<>> /\ IsSpace(Head(s)) THEN TrimLeft(Tail(s)) ELSE s

RECURSIVE TrimRight(_)
TrimRight(s) ==
    IF s # <<>> /\ IsSpace(s[Len(s)]) THEN TrimRight(SubSeq(s, 1, Len(s) - 1)) ELSE s

TrimSpace(s) == TrimRight(TrimLeft(s))

RECURSIVE Join(_, _)
Join(elems, sep) ==
    IF elems = <<>> THEN <<>>
    ELSE IF Len(elems) = 1 THEN elems[1]
    ELSE elems[1] \o sep \o Join(Tail(elems), sep)

----------------------------------------------------------------------------
(* The text sanitizer *)

isJapaneseChar(r) ==
    \/ (r >= 12352 /\ r <= 12447)    \* 0x3040..0x309F
    \/ (r >= 12448 /\ r <= 12543)    \* 0x30A0..0x30FF
    \/ (r >= 19968 /\ r <= 40879)    \* 0x4E00..0x9FAF

\* removeJapaneseSpacesFrom with || in place of && in the test of the neighbours.
RECURSIVE removeJapaneseSpacesEitherSide(_, _)
removeJapaneseSpacesEitherSide(runes, i) ==
    IF i > Len(runes) THEN <<>>
    ELSE LET r == runes[i]
             prevIsJapanese == i > 1 /\ isJapaneseChar(runes[i - 1])
             nextIsJapanese == i < Len(runes) /\ isJapaneseChar(runes[i + 1])
         IN  IF r = SPACE /\ (prevIsJapanese \/ nextIsJapanese)
             THEN removeJapaneseSpacesEitherSide(runes, i + 1)
             ELSE <<r>> \o removeJapaneseSpacesEitherSide(runes, i + 1)

RECURSIVE removeJapaneseSpacesFrom(_, _)
removeJapaneseSpacesFrom(runes, i) ==
    IF i > Len(runes) THEN <<>>
    ELSE LET r == runes[i]
             prevIsJapanese == i > 1 /\ isJapaneseChar(runes[i - 1])
             nextIsJapanese == i < Len(runes) /\ isJapaneseChar(runes[i + 1])
         IN  IF r = SPACE /\ prevIsJapanese /\ nextIsJapanese
             THEN removeJapaneseSpacesFrom(runes, i + 1)
             ELSE <<r>> \o removeJapaneseSpacesFrom(runes, i + 1)

removeJapaneseSpaces(s) == removeJapaneseSpacesFrom(s, 1)

\* convertFullWidthToHalfWidth with the range opened one code point early (0xFF00).
RECURSIVE convertFullWidthFromFF00(_)
convertFullWidthFromFF00(s) ==
    IF s = <<>> THEN <<>>
    ELSE LET r == Head(s)
         IN  (IF r >= 65280 /\ r <= 65374
              THEN <<r - 65280 + 32>>
              ELSE <<r>>)
             \o convertFullWidthFromFF00(Tail(s))

RECURSIVE convertFullWidthToHalfWidth(_)
convertFullWidthToHalfWidth(s) ==
    IF s = <<>> THEN <<>>
    ELSE LET r == Head(s)
         IN  (IF r >= 65281 /\ r <= 65374       \* 0xFF01..0xFF5E
              THEN <<r - 65280 + 32>>           \* r - 0xFF00 + 0x0020
              ELSE <<r>>)
             \o convertFullWidthToHalfWidth(Tail(s))

\* for strings.Contains(text, "  ") { text = strings.ReplaceAll(text, "  ", " ") }
RECURSIVE collapseSpaces(_)
collapseSpaces(s) ==
    IF Contains(s, <<SPACE, SPACE>>)
    THEN collapseSpaces(ReplaceAll(s, <<SPACE, SPACE>>, <<SPACE>>))
    ELSE s

sanitizeText(s) ==
    LET t1 == ReplaceAll(s, <<ReplacementChar>>, <<>>)
        t2 == convertFullWidthToHalfWidth(t1)
        t3 == removeJapaneseSpaces(t2)
        t4 == ReplaceAll(t3, <<TAB>>, <<SPACE>>)
        t5 == ReplaceAll(t4, <<CR, LF>>, <<LF>>)
        t6 == ReplaceAll(t5, <<CR>>, <<LF>>)
        t7 == collapseSpaces(t6)
    IN  TrimSpace(t7)

----------------------------------------------------------------------------
(* Results and errors *)

ErrNil == "nil"
ErrNotImplemented == "ParseFromReader not implemented"
ErrOpenFile == "failed to open file"
ErrReadWord == "error reading Word file"
ErrOpenEntry == "error opening file"
ErrParseXML == "error parsing XML"
ErrReadPowerPoint == "error reading PowerPoint"
ErrOpenWorkbook == "failed to open file (excelize)"
ErrNoData == "no data found"
ErrReadPDF == "error reading PDF"

NoPages == [k \in {} |-> <<>>]

\* What a call returned: the text (or the section map) and the error.  A
\* returned string is text followed by fill more bytes, each "a": a string of
\* 100 MiB is held by its length.
Ok(t) == [called |-> TRUE, text |-> t, fill |-> 0, pages |-> NoPages, err |-> ErrNil]
Fail(e) == [called |-> TRUE, text |-> <<>>, fill |-> 0, pages |-> NoPages, err |-> e]
OkPages(m) == [called |-> TRUE, text |-> <<>>, fill |-> 0, pages |-> m, err |-> ErrNil]
NotCalled == [called |-> FALSE, text |-> <<>>, fill |-> 0, pages |-> NoPages, err |-> ErrNil]

\* strings.Builder: the strings written, in order.
RECURSIVE ConcatAll(_)
ConcatAll(ss) == IF ss = <<>> THEN <<>> ELSE Head(ss) \o ConcatAll(Tail(ss))

\* fmt.Sprintf("%d", n) for n >= 0
RECURSIVE Itoa(_)
Itoa(n) == IF n < 10 THEN <<48 + n>> ELSE Itoa(n \div 10) \o <<48 + (n % 10)>>

----------------------------------------------------------------------------
(* DOCXParser *)

NameDocumentXml ==      \* "word/document.xml"
    <<119, 111, 114, 100, 47, 100, 111, 99, 117, 109, 101, 110, 116, 46, 120, 109, 108>>

\* A DocxParagraph p: p.runs[i] is Runs[i].Text.Content.
extractTextFromParagraph(p) == ConcatAll(p.runs)

\* extractTextFromRows writing a line for a row without text as well.
RECURSIVE extractTextFromRowsKeepingEmpty(_)
extractTextFromRowsKeepingEmpty(rows) ==
    IF rows = <<>> THEN <<>>
    ELSE LET paragraphs == ConcatAll(Head(rows))
             texts == [k \in 1..Len(paragraphs) |-> extractTextFromParagraph(paragraphs[k])]
             rowTexts == SelectSeq(texts, LAMBDA t : t # <<>>)
         IN  Join(rowTexts, <<TAB>>) \o <<LF>>
             \o extractTextFromRowsKeepingEmpty(Tail(rows))

\* A DocxTable tbl: tbl.rows[i][j] is the sequence of paragraphs of cell j of row i.
RECURSIVE extractTextFromRows(_)
extractTextFromRows(rows) ==
    IF rows = <<>> THEN <<>>
    ELSE LET paragraphs == ConcatAll(Head(rows))
             texts == [k \in 1..Len(paragraphs) |-> extractTextFromParagraph(paragraphs[k])]
             rowTexts == SelectSeq(texts, LAMBDA t : t # <<>>)
         IN  (IF Len(rowTexts) > 0 THEN Join(rowTexts, <<TAB>>) \o <<LF>> ELSE <<>>)
             \o extractTextFromRows(Tail(rows))

\* extractTextFromTable writing a blank line after the last row.
extractTextFromTableThenBlankLine(tbl) == extractTextFromRows(tbl.rows) \o <<LF>>

extractTextFromTable(tbl) == extractTextFromRows(tbl.rows)

\* The paragraph case of the token loop: what it writes to allText.
writeParagraph(p) ==
    LET t == extractTextFromParagraph(p)
    IN  IF t # <<>> THEN t \o <<LF>> ELSE <<>>

\* The token loop over one element and what follows its start tag: the text
\* written and inBody after its end tag.  DecodeElement consumes a paragraph
\* or a table whole, end tag included.
RECURSIVE walkElement(_, _), walkChildren(_, _)
walkElement(node, inBody) ==
    LET entered == inBody \/ node.tag = "body"
    IN  IF entered /\ node.tag = "p"
        THEN [out |-> writeParagraph(node), inBody |-> entered]
        ELSE IF entered /\ node.tag = "tbl"
        THEN [out |-> extractTextFromTable(node), inBody |-> entered]
        ELSE IF node.tag \in {"p", "tbl"}
        THEN [out |-> <<>>, inBody |-> entered]
        ELSE LET r == walkChildren(node.kids, entered)
             IN  [out |-> r.out,
                  inBody |-> IF node.tag = "body" THEN FALSE ELSE r.inBody]

walkChildren(kids, inBody) ==
    IF kids = <<>> THEN [out |-> <<>>, inBody |-> inBody]
    ELSE LET h == walkElement(Head(kids), inBody)
             t == walkChildren(Tail(kids), h.inBody)
         IN  [out |-> h.out \o t.out, inBody |-> t.inBody]

\* The index of the first file of the archive named name, 0 if there is none.
FirstNamed(files, name) ==
    IF \E i \in 1..Len(files) : files[i].name = name
    THEN CHOOSE i \in 1..Len(files) :
             /\ files[i].name = name
             /\ \A j \in 1..(i - 1) : files[j].name # name
    ELSE 0

DOCXParser_ParseFromReader(d) ==
    IF d.kind # "zip" THEN Fail(ErrReadWord)
    ELSE LET i == FirstNamed(d.files, NameDocumentXml)
         IN  IF i = 0 THEN Ok(<<>>)
             ELSE LET f == d.files[i]
                  IN  IF ~f.open THEN Fail(ErrOpenEntry)
                      ELSE IF ~f.read \/ ~f.wellFormed THEN Fail(ErrParseXML)
                      ELSE Ok(walkElement(f.root, FALSE).out)

\* docx.go (package service): the DocxDocument decoded from the same markup
\* holds the paragraphs that are children of the root's body element.
extractTextFromDocument(paragraphs) ==
    Join([k \in 1..Len(paragraphs) |-> ConcatAll(paragraphs[k].runs)], <<LF>>)

----------------------------------------------------------------------------
(* PPTXParser *)

PrefixSlide == <<112, 112, 116, 47, 115, 108, 105, 100, 101, 115, 47, 115, 108, 105, 100, 101>>
    \* "ppt/slides/slide"
SuffixXml == <<46, 120, 109, 108>>           \* ".xml"
WordLayout == <<76, 97, 121, 111, 117, 116>>  \* "Layout"
WordMaster == <<77, 97, 115, 116, 101, 114>>  \* "Master"
HeaderSlide == <<35, 35, 32, 83, 108, 105, 100, 101, 32>>   \* "## Slide "
NoTextFound ==                                               \* "(No text found)"
    <<40, 78, 111, 32, 116, 101, 120, 116, 32, 102, 111, 117, 110, 100, 41>>

\* isSlideFile without the test for "Layout".
isSlideFileKeepingLayouts(name) ==
    /\ HasPrefix(name, PrefixSlide)
    /\ HasSuffix(name, SuffixXml)
    /\ ~Contains(name, WordMaster)

isSlideFile(name) ==
    /\ HasPrefix(name, PrefixSlide)
    /\ HasSuffix(name, SuffixXml)
    /\ ~Contains(name, WordLayout)
    /\ ~Contains(name, WordMaster)

\* A Slide: shapes[i][j] is the sequence of run texts of paragraph j of shape i.
extractTextFromSlide(shapes) ==
    LET paragraphs == ConcatAll(shapes)
        texts == [k \in 1..Len(paragraphs) |->
                     ConcatAll(SelectSeq(paragraphs[k], LAMBDA t : t # <<>>))]
    IN  Join(SelectSeq(texts, LAMBDA t : Len(t) > 0), <<LF>>)

\* pptxFiles writing the position of the entry in the archive as the slide number.
RECURSIVE pptxFilesNumberedByEntry(_, _, _)
pptxFilesNumberedByEntry(files, i, slideNum) ==
    IF i > Len(files) THEN <<>>
    ELSE LET f == files[i]
         IN  IF isSlideFile(f.name) /\ f.open /\ f.read /\ f.wellFormed
             THEN LET extractedText == extractTextFromSlide(f.shapes)
                  IN  HeaderSlide \o Itoa(i) \o <<LF>>
                      \o (IF Len(extractedText) > 0 THEN extractedText ELSE NoTextFound)
                      \o <<LF, LF>>
                      \o pptxFilesNumberedByEntry(files, i + 1, slideNum + 1)
             ELSE pptxFilesNumberedByEntry(files, i + 1, slideNum)

\* pptxFiles with slideNum++ reached by an entry that could not be decoded.
RECURSIVE pptxFilesCountingFailures(_, _, _)
pptxFilesCountingFailures(files, i, slideNum) ==
    IF i > Len(files) THEN <<>>
    ELSE LET f == files[i]
         IN  IF isSlideFile(f.name) /\ f.open /\ f.read /\ f.wellFormed
             THEN LET extractedText == extractTextFromSlide(f.shapes)
                  IN  HeaderSlide \o Itoa(slideNum) \o <<LF>>
                      \o (IF Len(extractedText) > 0 THEN extractedText ELSE NoTextFound)
                      \o <<LF, LF>>
                      \o pptxFilesCountingFailures(files, i + 1, slideNum + 1)
             ELSE IF isSlideFile(f.name)
             THEN pptxFilesCountingFailures(files, i + 1, slideNum + 1)
             ELSE pptxFilesCountingFailures(files, i + 1, slideNum)

\* The loop over r.File from file i on, with the slide number reached.
RECURSIVE pptxFiles(_, _, _)
pptxFiles(files, i, slideNum) ==
    IF i > Len(files) THEN <<>>
    ELSE LET f == files[i]
         IN  IF isSlideFile(f.name) /\ f.open /\ f.read /\ f.wellFormed
             THEN LET extractedText == extractTextFromSlide(f.shapes)
                  IN  HeaderSlide \o Itoa(slideNum) \o <<LF>>
                      \o (IF Len(extractedText) > 0 THEN extractedText ELSE NoTextFound)
                      \o <<LF, LF>>
                      \o pptxFiles(files, i + 1, slideNum + 1)
             ELSE pptxFiles(files, i + 1, slideNum)

PPTXParser_ParseFromReader(d) ==
    IF d.kind # "zip" THEN Fail(ErrReadPowerPoint)
    ELSE Ok(pptxFiles(d.files, 1, 1))

----------------------------------------------------------------------------
(* ExcelParser *)

HeaderSheet == <<35, 32, 83, 104, 101, 101, 116, 32>>   \* "# Sheet "
SheetRule == <<10, 45, 45, 45, 10, 10>>                  \* "\n---\n\n"
CellSep == <<32, 124, 32>>                               \* " | "

\* The rows loop of one sheet: buf after the rows from the first of rows on.
RECURSIVE sheetRows(_)
sheetRows(rows) ==
    IF rows = <<>> THEN <<>>
    ELSE (IF Head(rows).err THEN <<>> ELSE Join(Head(rows).cols, CellSep) \o <<LF>>)
         \o sheetRows(Tail(rows))

\* sheetResults leaving out a sheet whose content is empty.
RECURSIVE sheetResultsSkippingEmpty(_)
sheetResultsSkippingEmpty(sheets) ==
    IF sheets = <<>> THEN <<>>
    ELSE (IF Head(sheets).rowsErr \/ sheetRows(Head(sheets).rows) = <<>> THEN <<>>
          ELSE <<[name |-> Head(sheets).name, content |-> sheetRows(Head(sheets).rows)]>>)
         \o sheetResultsSkippingEmpty(Tail(sheets))

\* The sheets loop: results after the sheets from the first of sheets on.
RECURSIVE sheetResults(_)
sheetResults(sheets) ==
    IF sheets = <<>> THEN <<>>
    ELSE (IF Head(sheets).rowsErr THEN <<>>
          ELSE <<[name |-> Head(sheets).name, content |-> sheetRows(Head(sheets).rows)]>>)
         \o sheetResults(Tail(sheets))

extractSheets(d) ==
    IF d.kind # "xlsx" THEN [err |-> ErrOpenWorkbook, sheets |-> <<>>]
    ELSE LET results == sheetResults(d.sheets)
         IN  IF Len(results) = 0 THEN [err |-> ErrNoData, sheets |-> <<>>]
             ELSE [err |-> ErrNil, sheets |-> results]

ExcelParser_ParseFromReader(d) ==
    LET r == extractSheets(d)
    IN  IF r.err # ErrNil THEN Fail(r.err)
        ELSE LET buf == ConcatAll([k \in 1..Len(r.sheets) |->
                            HeaderSheet \o r.sheets[k].name \o <<LF>>
                            \o r.sheets[k].content \o SheetRule])
             IN  IF Len(buf) = 0 THEN Fail(ErrNoData) ELSE Ok(buf)

\* result[sheet.name] = sheet.content for each sheet in turn: the last
\* assignment to a key stays.
ExcelParser_ParseWithPages(d) ==
    LET r == extractSheets(d)
    IN  IF r.err # ErrNil THEN Fail(r.err)
        ELSE LET names == {r.sheets[k].name : k \in 1..Len(r.sheets)}
                 last(n) == CHOOSE k \in 1..Len(r.sheets) :
                                /\ r.sheets[k].name = n
                                /\ \A j \in (k + 1)..Len(r.sheets) : r.sheets[j].name # n
             IN  OkPages([n \in names |-> r.sheets[last(n)].content])

----------------------------------------------------------------------------
(* PDFParser *)

HeaderPage == <<35, 35, 32, 80, 97, 103, 101, 32>>   \* "## Page "

pageTexts(texts) ==
    SelectSeq([k \in 1..Len(texts) |-> TrimSpace(texts[k])], LAMBDA t : t # <<>>)

\* pdfPages writing in the header the number of pages written so far.
RECURSIVE pdfPagesRenumbered(_, _)
pdfPagesRenumbered(pages, i) ==
    IF i > Len(pages) THEN <<>>
    ELSE IF pages[i].null THEN pdfPagesRenumbered(pages, i + 1)
    ELSE LET cleaned == pageTexts(pages[i].texts)
         IN  HeaderPage \o Itoa(Cardinality({j \in 1..i : ~pages[j].null})) \o <<LF, LF>>
             \o (IF Len(cleaned) > 0 THEN sanitizeText(Join(cleaned, <<SPACE>>)) ELSE <<>>)
             \o <<LF, LF>>
             \o pdfPagesRenumbered(pages, i + 1)

\* The pages loop from page i on.
RECURSIVE pdfPages(_, _)
pdfPages(pages, i) ==
    IF i > Len(pages) THEN <<>>
    ELSE IF pages[i].null THEN pdfPages(pages, i + 1)
    ELSE LET cleaned == pageTexts(pages[i].texts)
         IN  HeaderPage \o Itoa(i) \o <<LF, LF>>
             \o (IF Len(cleaned) > 0 THEN sanitizeText(Join(cleaned, <<SPACE>>)) ELSE <<>>)
             \o <<LF, LF>>
             \o pdfPages(pages, i + 1)

PDFParser_ParseFromReader(d) ==
    IF d.kind # "pdf" THEN Fail(ErrReadPDF)
    ELSE Ok(pdfPages(d.pages, 1))

----------------------------------------------------------------------------
(* TextParser *)

maxSize == 100 * 1024 * 1024
ErrTooLarge == "file size exceeds maximum allowed size"
ErrReadText == "error reading text file"

\* len(data): the bytes of d are d.data followed by d.fill bytes "a".
TextSize(d) == Len(d.data) + d.fill

\* string(data)
TextOf(d) == [Ok(d.data) EXCEPT !.fill = d.fill]

TextParser_ParseFromBytes(d) ==
    IF TextSize(d) > maxSize THEN Fail(ErrTooLarge) ELSE TextOf(d)

\* TextParser_ParseFromReader with >= in place of > in the test of the size.
TextParser_ParseFromReaderRejectingMax(d) ==
    IF TextSize(d) >= maxSize THEN Fail(ErrTooLarge)
    ELSE IF d.readErr THEN Fail(ErrReadText)
    ELSE TextOf(d)

\* size is len(d); ReadAt fills the buffer (io.EOF is not an error here) or
\* fails.
TextParser_ParseFromReader(d) ==
    IF TextSize(d) > maxSize THEN Fail(ErrTooLarge)
    ELSE IF d.readErr THEN Fail(ErrReadText)
    ELSE TextOf(d)

\* The calls of reader.ReadAt one call of TextParser.ParseFromReader makes.
TextParser_ReadAtCalls(d) == IF TextSize(d) > maxSize THEN 0 ELSE 1

----------------------------------------------------------------------------
(* The entry points of each parser type.  A parser type embeds BaseParser:  *)
(* a method the type does not declare is BaseParser's, promoted, and runs  *)
(* with the embedded BaseParser as its receiver.                           *)

Parsers == {"DOCXParser", "PPTXParser", "PDFParser", "ExcelParser", "TextParser"}

\* Parser types a caller registers: each embeds BaseParser and declares
\* SupportedExtensions and ParseFromReader only, as CustomParser in README.md.
CustomParsers == {"CustomParser", "CustomParserXYZ"}

ParsedContent ==    \* "parsed content"
    <<112, 97, 114, 115, 101, 100, 32, 99, 111, 110, 116, 101, 110, 116>>

CustomParser_ParseFromReader(d) == Ok(ParsedContent)

ErrStat == "failed to get file stats"
FileStates == {"ok", "noopen", "nostat"}

\* DocumentParser.ParseFromReader on a value of concrete type p.
ParseFromReader(p, d) ==
    CASE p = "DOCXParser" -> DOCXParser_ParseFromReader(d)
      [] p = "PPTXParser" -> PPTXParser_ParseFromReader(d)
      [] p = "PDFParser" -> PDFParser_ParseFromReader(d)
      [] p = "ExcelParser" -> ExcelParser_ParseFromReader(d)
      [] p = "TextParser" -> TextParser_ParseFromReader(d)
      [] p \in CustomParsers -> CustomParser_ParseFromReader(d)

BaseParser_ParseFromReader(d) == Fail(ErrNotImplemented)

BaseParser_ParseFromBytes(d) == BaseParser_ParseFromReader(d)

BaseParser_ParseFromFile(d, file) ==
    IF file = "noopen" THEN Fail(ErrOpenFile)
    ELSE IF file = "nostat" THEN Fail(ErrStat)
    ELSE BaseParser_ParseFromReader(d)

parseFromFileCommon(p, d, file) ==
    IF file = "noopen" THEN Fail(ErrOpenFile)
    ELSE IF file = "nostat" THEN Fail(ErrStat)
    ELSE ParseFromReader(p, d)

parseFromBytesCommon(p, d) == ParseFromReader(p, d)

PPTXParser_ParseFromFile(d, file) ==
    IF file = "noopen" THEN Fail(ErrOpenFile)
    ELSE IF file = "nostat" THEN Fail(ErrStat)
    ELSE PPTXParser_ParseFromReader(d)

PPTXParser_ParseFromBytes(d) == PPTXParser_ParseFromReader(d)

\* DocumentParser.ParseFromBytes on a value of concrete type p.
ParseFromBytes(p, d) ==
    CASE p = "DOCXParser" -> BaseParser_ParseFromBytes(d)
      [] p = "PPTXParser" -> PPTXParser_ParseFromBytes(d)
      [] p = "PDFParser" -> parseFromBytesCommon(p, d)
      [] p = "ExcelParser" -> parseFromBytesCommon(p, d)
      [] p = "TextParser" -> TextParser_ParseFromBytes(d)
      [] p \in CustomParsers -> BaseParser_ParseFromBytes(d)

\* DocumentParser.ParseFromFile on a value of concrete type p; the file at
\* filePath holds d.
ParseFromFile(p, d, file) ==
    CASE p = "DOCXParser" -> BaseParser_ParseFromFile(d, file)
      [] p = "PPTXParser" -> PPTXParser_ParseFromFile(d, file)
      [] p = "PDFParser" -> parseFromFileCommon(p, d, file)
      [] p = "ExcelParser" -> parseFromFileCommon(p, d, file)
      [] p = "TextParser" -> BaseParser_ParseFromFile(d, file)
      [] p \in CustomParsers -> BaseParser_ParseFromFile(d, file)

----------------------------------------------------------------------------
(* DocumentParserFactory *)

Dot == <<46>>    \* "."

PPTXParser_SupportedExtensions ==
    << <<46, 112, 112, 116, 120>>, <<46, 112, 112, 116>> >>    \* ".pptx", ".ppt"
PDFParser_SupportedExtensions ==
    << <<46, 112, 100, 102>> >>    \* ".pdf"
DOCXParser_SupportedExtensions ==
    << <<46, 100, 111, 99, 120>>, <<46, 100, 111, 99>> >>    \* ".docx", ".doc"
ExcelParser_SupportedExtensions ==
    << <<46, 120, 108, 115, 120>>, <<46, 120, 108, 115>> >>    \* ".xlsx", ".xls"
CustomParser_SupportedExtensions ==
    << <<46, 99, 117, 115, 116, 111, 109>> >>    \* ".custom"
CustomParserXYZ_SupportedExtensions ==
    << <<46, 112, 100, 102>>, <<46, 88, 89, 90>> >>    \* ".pdf", ".XYZ"

TextParser_SupportedExtensions ==
    <<
       <<46, 116, 120, 116>>,                                       \* ".txt"
       <<46, 109, 100>>,                                            \* ".md"
       <<46, 109, 97, 114, 107, 100, 111, 119, 110>>,               \* ".markdown"
       <<46, 109, 100, 111, 119, 110>>,                             \* ".mdown"
       <<46, 109, 107, 100>>,                                       \* ".mkd"
       <<46, 109, 100, 119, 110>>,                                  \* ".mdwn"
       <<46, 109, 107, 100, 110>>,                                  \* ".mkdn"
       <<46, 109, 100, 116, 120, 116>>,                             \* ".mdtxt"
       <<46, 109, 100, 116, 101, 120, 116>>,                        \* ".mdtext"
       <<46, 116, 101, 120, 116>>,                                  \* ".text"
       <<46, 108, 111, 103>>,                                       \* ".log"
       <<46, 99, 115, 118>>,                                        \* ".csv"
       <<46, 116, 115, 118>>,                                       \* ".tsv"
       <<46, 106, 115, 111, 110>>,                                  \* ".json"
       <<46, 120, 109, 108>>,                                       \* ".xml"
       <<46, 121, 97, 109, 108>>,                                   \* ".yaml"
       <<46, 121, 109, 108>>,                                       \* ".yml"
       <<46, 116, 111, 109, 108>>,                                  \* ".toml"
       <<46, 105, 110, 105>>,                                       \* ".ini"
       <<46, 99, 102, 103>>,                                        \* ".cfg"
       <<46, 99, 111, 110, 102>>,                                   \* ".conf"
       <<46, 112, 114, 111, 112, 101, 114, 116, 105, 101, 115>>,    \* ".properties"
       <<46, 101, 110, 118>>,                                       \* ".env"
       <<46, 115, 104>>,                                            \* ".sh"
       <<46, 98, 97, 115, 104>>,                                    \* ".bash"
       <<46, 122, 115, 104>>,                                       \* ".zsh"
       <<46, 102, 105, 115, 104>>,                                  \* ".fish"
       <<46, 112, 121>>,                                            \* ".py"
       <<46, 106, 115>>,                                            \* ".js"
       <<46, 116, 115>>,                                            \* ".ts"
       <<46, 106, 115, 120>>,                                       \* ".jsx"
       <<46, 116, 115, 120>>,                                       \* ".tsx"
       <<46, 103, 111>>,                                            \* ".go"
       <<46, 114, 115>>,                                            \* ".rs"
       <<46, 99>>,                                                  \* ".c"
       <<46, 99, 112, 112>>,                                        \* ".cpp"
       <<46, 104>>,                                                 \* ".h"
       <<46, 104, 112, 112>>,                                       \* ".hpp"
       <<46, 106, 97, 118, 97>>,                                    \* ".java"
       <<46, 107, 116>>,                                            \* ".kt"
       <<46, 115, 119, 105, 102, 116>>,                             \* ".swift"
       <<46, 114, 98>>,                                             \* ".rb"
       <<46, 112, 104, 112>>,                                       \* ".php"
       <<46, 115, 113, 108>>,                                       \* ".sql"
       <<46, 104, 116, 109, 108>>,                                  \* ".html"
       <<46, 104, 116, 109>>,                                       \* ".htm"
       <<46, 99, 115, 115>>,                                        \* ".css"
       <<46, 115, 99, 115, 115>>,                                   \* ".scss"
       <<46, 115, 97, 115, 115>>,                                   \* ".sass"
       <<46, 108, 101, 115, 115>>,                                  \* ".less"
       <<46, 118, 117, 101>>,                                       \* ".vue"
       <<46, 115, 118, 101, 108, 116, 101>>,                        \* ".svelte"
       <<46, 114>>,                                                 \* ".r"
       <<46, 82>>,                                                  \* ".R"
       <<46, 109>>,                                                 \* ".m"
       <<46, 112, 108>>,                                            \* ".pl"
       <<46, 108, 117, 97>>,                                        \* ".lua"
       <<46, 100, 97, 114, 116>>,                                   \* ".dart"
       <<46, 115, 99, 97, 108, 97>>,                                \* ".scala"
       <<46, 99, 108, 106>>,                                        \* ".clj"
       <<46, 101, 120>>,                                            \* ".ex"
       <<46, 101, 120, 115>>,                                       \* ".exs"
       <<46, 101, 114, 108>>,                                       \* ".erl"
       <<46, 104, 114, 108>>,                                       \* ".hrl"
       <<46, 102, 115>>,                                            \* ".fs"
       <<46, 102, 115, 120>>,                                       \* ".fsx"
       <<46, 118, 98>>,                                             \* ".vb"
       <<46, 98, 97, 115>>,                                         \* ".bas"
       <<46, 112, 97, 115>>,                                        \* ".pas"
       <<46, 97, 115, 109>>,                                        \* ".asm"
       <<46, 115>>,                                                 \* ".s"
       <<46, 112, 115, 49>>,                                        \* ".ps1"
       <<46, 112, 115, 109, 49>>,                                   \* ".psm1"
       <<46, 98, 97, 116>>,                                         \* ".bat"
       <<46, 99, 109, 100>>,                                        \* ".cmd"
       <<46, 109, 97, 107, 101, 102, 105, 108, 101>>,               \* ".makefile"
       <<46, 109, 107>>,                                            \* ".mk"
       <<46, 100, 111, 99, 107, 101, 114, 102, 105, 108, 101>>,     \* ".dockerfile"
       <<46, 103, 105, 116, 105, 103, 110, 111, 114, 101>>,         \* ".gitignore"
       <<46, 101, 100, 105, 116, 111, 114, 99, 111, 110, 102, 105, 103>>, \* ".editorconfig"
       <<46, 104, 116, 97, 99, 99, 101, 115, 115>>,                 \* ".htaccess"
       <<46, 110, 103, 105, 110, 120>>,                             \* ".nginx"
       <<46, 118, 105, 109, 114, 99>>,                              \* ".vimrc"
       <<46, 122, 115, 104, 114, 99>>,                              \* ".zshrc"
       <<46, 98, 97, 115, 104, 114, 99>>                            \* ".bashrc"
    >>

\* DocumentParser.SupportedExtensions on a value of concrete type p.
SupportedExtensions(p) ==
    CASE p = "PPTXParser" -> PPTXParser_SupportedExtensions
      [] p = "PDFParser" -> PDFParser_SupportedExtensions
      [] p = "DOCXParser" -> DOCXParser_SupportedExtensions
      [] p = "TextParser" -> TextParser_SupportedExtensions
      [] p = "ExcelParser" -> ExcelParser_SupportedExtensions
      [] p = "CustomParser" -> CustomParser_SupportedExtensions
      [] p = "CustomParserXYZ" -> CustomParserXYZ_SupportedExtensions

\* unicode.ToLower on the letters of ASCII and Latin-1; every other code
\* point of the inputs used here has no lower case.
ToLowerRune(r) ==
    IF (r >= 65 /\ r <= 90) \/ (r >= 192 /\ r <= 222 /\ r # 215) THEN r + 32 ELSE r

\* strings.ToLower
ToLower(s) == [k \in 1..Len(s) |-> ToLowerRune(s[k])]

\* m[k] = v on a map m
MapPut(m, k, v) == (k :> v) @@ m

\* make(map[string]DocumentParser)
EmptyParsers == [k \in {} |-> "nil"]

\* for _, ext := range exts { parsers[ext] = p }
RECURSIVE registerAll(_, _, _)
registerAll(m, exts, p) ==
    IF exts = <<>> THEN m
    ELSE registerAll(MapPut(m, Head(exts), p), Tail(exts), p)

NewDocumentParserFactory ==
    LET m1 == registerAll(EmptyParsers, SupportedExtensions("PPTXParser"), "PPTXParser")
        m2 == registerAll(m1, SupportedExtensions("PDFParser"), "PDFParser")
        m3 == registerAll(m2, SupportedExtensions("DOCXParser"), "DOCXParser")
        m4 == registerAll(m3, SupportedExtensions("TextParser"), "TextParser")
    IN  registerAll(m4, SupportedExtensions("ExcelParser"), "ExcelParser")

ErrUnsupported == "unsupported file extension"

\* GetParser without strings.ToLower.
GetParserCaseSensitive(m, extension) ==
    LET ext == IF ~HasPrefix(extension, Dot) THEN Dot \o extension ELSE extension
    IN  IF ext \in DOMAIN m
        THEN [parser |-> m[ext], err |-> ErrNil]
        ELSE [parser |-> "nil", err |-> ErrUnsupported]

\* f.GetParser(extension) with f.parsers = m
GetParser(m, extension) ==
    LET lower == ToLower(extension)
        ext == IF ~HasPrefix(lower, Dot) THEN Dot \o lower ELSE lower
    IN  IF ext \in DOMAIN m
        THEN [parser |-> m[ext], err |-> ErrNil]
        ELSE [parser |-> "nil", err |-> ErrUnsupported]

\* RegisterParser emptying f.parsers before it stores the entries of parser.
RegisterParserIntoFresh(m, p) == registerAll(EmptyParsers, SupportedExtensions(p), p)

\* f.RegisterParser(parser): f.parsers afterwards
RegisterParser(m, p) == registerAll(m, SupportedExtensions(p), p)

\* f.SupportedExtensions(): the keys of f.parsers, each once. The order of
\* the returned slice is the order of a range over a Go map, which is
\* unspecified: the result is taken as the collection of its elements.
Factory_SupportedExtensions(m) == DOMAIN m

\* getFileExtension: filePath from its last "." on, "" without one.
getFileExtension(filePath) ==
    LET dots == {i \in 1..Len(filePath) : filePath[i] = 46}
    IN  IF dots = {} THEN <<>>
        ELSE SubSeq(filePath, CHOOSE i \in dots : \A j \in dots : j <= i, Len(filePath))

ErrGetParser == "failed to get parser"
ErrParseFile == "failed to parse file"
ErrParseBytes == "failed to parse bytes"
ErrParseReader == "failed to parse from reader"

\* fmt.Errorf(prefix + ": %w", err)
Wrap(prefix, e) == prefix \o ": " \o e

\* if err != nil { return "", fmt.Errorf(...) }; return content, nil
Wrapped(prefix, r) == IF r.err # ErrNil THEN Fail(Wrap(prefix, r.err)) ELSE r

Factory_ParseFromFile(m, filePath, d, file) ==
    LET g == GetParser(m, getFileExtension(filePath))
    IN  IF g.err # ErrNil THEN Fail(Wrap(ErrGetParser, g.err))
        ELSE Wrapped(ErrParseFile, ParseFromFile(g.parser, d, file))

Factory_ParseFromBytes(m, ext, d) ==
    LET g == GetParser(m, ext)
    IN  IF g.err # ErrNil THEN Fail(Wrap(ErrGetParser, g.err))
        ELSE Wrapped(ErrParseBytes, ParseFromBytes(g.parser, d))

Factory_ParseFromReader(m, ext, d) ==
    LET g == GetParser(m, ext)
    IN  IF g.err # ErrNil THEN Fail(Wrap(ErrGetParser, g.err))
        ELSE Wrapped(ErrParseReader, ParseFromReader(g.parser, d))

\* parser.(PageSeparatedParser): the type declares ParseWithPages.
IsPageSeparatedParser(p) == p = "ExcelParser"

\* PageSeparatedParser.ParseWithPages on a value of concrete type p.
ParseWithPages(p, d) ==
    CASE p = "ExcelParser" -> ExcelParser_ParseWithPages(d)

KeyContent == <<67, 111, 110, 116, 101, 110, 116>>    \* "Content"

\* if err != nil { return nil, fmt.Errorf(...) }
\* return map[string]string{"Content": content}, nil
ContentPages(prefix, r) ==
    IF r.err # ErrNil THEN Fail(Wrap(prefix, r.err))
    ELSE [OkPages(KeyContent :> r.text) EXCEPT !.fill = r.fill]

Factory_ParseFromFileWithPages(m, filePath, d, file) ==
    LET g == GetParser(m, getFileExtension(filePath))
    IN  IF g.err # ErrNil THEN Fail(Wrap(ErrGetParser, g.err))
        ELSE IF IsPageSeparatedParser(g.parser)
        THEN IF file = "noopen" THEN Fail(ErrOpenFile)
             ELSE IF file = "nostat" THEN Fail(ErrStat)
             ELSE ParseWithPages(g.parser, d)
        ELSE ContentPages(ErrParseFile, ParseFromFile(g.parser, d, file))

Factory_ParseFromBytesWithPages(m, ext, d) ==
    LET g == GetParser(m, ext)
    IN  IF g.err # ErrNil THEN Fail(Wrap(ErrGetParser, g.err))
        ELSE IF IsPageSeparatedParser(g.parser) THEN ParseWithPages(g.parser, d)
        ELSE ContentPages(ErrParseBytes, ParseFromBytes(g.parser, d))

Factory_ParseFromReaderWithPages(m, ext, d) ==
    LET g == GetParser(m, ext)
    IN  IF g.err # ErrNil THEN Fail(Wrap(ErrGetParser, g.err))
        ELSE IF IsPageSeparatedParser(g.parser) THEN ParseWithPages(g.parser, d)
        ELSE ContentPages(ErrParseReader, ParseFromReader(g.parser, d))

----------------------------------------------------------------------------
(* SpecText: the text functions applied to bounded inputs *)

ParseIdle ==
    /\ parser = "none"
    /\ doc = "none"
    /\ res = "none"
    /\ visit = "none"
    /\ readAt = 0

RouterIdle ==
    /\ discr = <<>>
    /\ parsers = "none"
    /\ regs = 0
    /\ lastCall = "none"

InitText ==
    /\ text \in TextInputs
    /\ fn = "none"
    /\ arg = <<>>
    /\ ret = <<>>
    /\ calls = 0
    /\ ParseIdle
    /\ RouterIdle

\* sanitizeText on the input, then on its own result.
CallSanitizeText ==
    /\ fn \in {"none", "sanitizeText"}
    /\ calls < MaxCalls
    /\ LET a == IF fn = "none" THEN text ELSE ret
       IN  /\ arg' = a
           /\ ret' = sanitizeText(a)
    /\ fn' = "sanitizeText"
    /\ calls' = calls + 1
    /\ UNCHANGED <<text, parseVars, routerVars>>

CallRemoveJapaneseSpaces ==
    /\ fn = "none"
    /\ arg' = text
    /\ ret' = removeJapaneseSpaces(text)
    /\ fn' = "removeJapaneseSpaces"
    /\ calls' = calls + 1
    /\ UNCHANGED <<text, parseVars, routerVars>>

CallConvertFullWidthToHalfWidth ==
    /\ fn = "none"
    /\ arg' = text
    /\ ret' = convertFullWidthToHalfWidth(text)
    /\ fn' = "convertFullWidthToHalfWidth"
    /\ calls' = calls + 1
    /\ UNCHANGED <<text, parseVars, routerVars>>

NextText ==
    \/ CallSanitizeText
    \/ CallRemoveJapaneseSpaces
    \/ CallConvertFullWidthToHalfWidth

SpecText == InitText /\ [][NextText]_vars

----------------------------------------------------------------------------
(* Documents *)

A == <<97>>     \* "a"
B == <<98>>     \* "b"

P(runs) == [tag |-> "p", runs |-> runs]
Tbl(rows) == [tag |-> "tbl", rows |-> rows]
Elem(tag, kids) == [tag |-> tag, kids |-> kids]

Garbage == [kind |-> "garbage"]
Zip(files) == [kind |-> "zip", files |-> files]

ParagraphSet == {P(<<>>), P(<< <<>> >>), P(<<A>>), P(<<A, B>>)}

RowSet ==
    { <<>>,
      << <<P(<<A>>)>> >>,
      << <<P(<<A>>)>>, <<P(<<B>>)>> >>,
      << <<P(<<>>)>> >>,
      << <<P(<<A>>), P(<<B>>)>>, <<P(<<>>)>>, <<P(<<A, B>>)>> >> }

TableSet == {Tbl(rows) : rows \in SeqsUpTo(RowSet, MaxRows)}

Table2x2 ==
    Tbl(<< << <<P(<<A>>)>>, <<P(<<B>>)>> >>, << <<P(<<B>>)>>, <<P(<<A>>)>> >> >>)

BodyItems ==
    ParagraphSet \cup
    {Table2x2, Elem("sdt", <<Elem("sdtContent", <<P(<<B>>)>>)>>), Elem("sectPr", <<>>)}

DocxRoots ==
    {Elem("document", <<Elem("body", b)>>) : b \in SeqsUpTo(BodyItems, MaxBody)}
    \cup {Elem("document", <<Elem("body", <<t>>)>>) : t \in TableSet}
    \cup {Elem("document", <<P(<<A>>), Elem("body", b), Tbl(<< << <<P(<<B>>)>> >> >>)>>) :
              b \in SeqsUpTo(BodyItems, 1)}

NameStylesXml ==        \* "word/styles.xml"
    <<119, 111, 114, 100, 47, 115, 116, 121, 108, 101, 115, 46, 120, 109, 108>>

File(name, root, shapes) ==
    [name |-> name, open |-> TRUE, read |-> TRUE, wellFormed |-> TRUE,
     root |-> root, shapes |-> shapes]

DocEntry(root) == File(NameDocumentXml, root, <<>>)

StylesEntry == File(NameStylesXml, Elem("styles", <<Elem("body", <<P(<<B>>)>>)>>), <<>>)

HelloRoot == Elem("document", <<Elem("body", <<P(<<A>>)>>)>>)

DocxDocs ==
    {Garbage, Zip(<<>>), Zip(<<StylesEntry>>)}
    \cup {Zip(<<DocEntry(r)>>) : r \in DocxRoots}
    \cup {Zip(<<StylesEntry, DocEntry(HelloRoot)>>),
          Zip(<<DocEntry(HelloRoot), DocEntry(Elem("document", <<Elem("body", <<P(<<B>>)>>)>>))>>),
          Zip(<<[DocEntry(HelloRoot) EXCEPT !.open = FALSE]>>),
          Zip(<<[DocEntry(HelloRoot) EXCEPT !.read = FALSE]>>),
          Zip(<<[DocEntry(HelloRoot) EXCEPT !.wellFormed = FALSE]>>)}

NameSlide1 ==           \* "ppt/slides/slide1.xml"
    <<112, 112, 116, 47, 115, 108, 105, 100, 101, 115, 47, 115, 108, 105, 100, 101, 49,
      46, 120, 109, 108>>
NameSlide2 ==           \* "ppt/slides/slide2.xml"
    <<112, 112, 116, 47, 115, 108, 105, 100, 101, 115, 47, 115, 108, 105, 100, 101, 50,
      46, 120, 109, 108>>
NameSlideLayout1 ==     \* "ppt/slides/slideLayout1.xml"
    <<112, 112, 116, 47, 115, 108, 105, 100, 101, 115, 47, 115, 108, 105, 100, 101, 76,
      97, 121, 111, 117, 116, 49, 46, 120, 109, 108>>
NameSlideMaster1 ==     \* "ppt/slides/slideMaster1.xml"
    <<112, 112, 116, 47, 115, 108, 105, 100, 101, 115, 47, 115, 108, 105, 100, 101, 77,
      97, 115, 116, 101, 114, 49, 46, 120, 109, 108>>
NameLayoutsLayout1 ==   \* "ppt/slideLayouts/slideLayout1.xml"
    <<112, 112, 116, 47, 115, 108, 105, 100, 101, 76, 97, 121, 111, 117, 116, 115, 47,
      115, 108, 105, 100, 101, 76, 97, 121, 111, 117, 116, 49, 46, 120, 109, 108>>
NameSlide1Rels ==       \* "ppt/slides/_rels/slide1.xml.rels"
    <<112, 112, 116, 47, 115, 108, 105, 100, 101, 115, 47, 95, 114, 101, 108, 115, 47,
      115, 108, 105, 100, 101, 49, 46, 120, 109, 108, 46, 114, 101, 108, 115>>

ShapesA == << << <<A>> >> >>                          \* one shape, one paragraph "a"
ShapesBlank == << << <<>>, << <<>> >> >>, <<>> >>     \* paragraphs without text, a shape without text body
ShapesTwo == << << <<A, B>>, <<>> >>, << <<B>> >> >>  \* "ab" in one shape, "b" in the next

SlideFile(name, shapes) == File(name, Elem("sld", <<>>), shapes)

PptxFiles ==
    {SlideFile(NameSlide1, ShapesA), SlideFile(NameSlide1, <<>>),
     [SlideFile(NameSlide1, ShapesA) EXCEPT !.open = FALSE],
     [SlideFile(NameSlide1, ShapesA) EXCEPT !.wellFormed = FALSE],
     SlideFile(NameSlide2, ShapesTwo), SlideFile(NameSlide2, ShapesBlank),
     [SlideFile(NameSlide2, ShapesA) EXCEPT !.read = FALSE],
     SlideFile(NameSlideLayout1, ShapesA), SlideFile(NameSlideMaster1, ShapesA),
     SlideFile(NameLayoutsLayout1, ShapesA), SlideFile(NameSlide1Rels, ShapesA)}

PptxDocs == {Garbage} \cup {Zip(files) : files \in SeqsUpTo(PptxFiles, MaxEntries)}

X == <<120>>    \* "x"
Y == <<121>>    \* "y"

Row(cols) == [err |-> FALSE, cols |-> cols]
Sheet(name, rows) == [name |-> name, rowsErr |-> FALSE, rows |-> rows]

SheetNames == {<<65>>, <<66>>, <<67>>}    \* "A", "B", "C"

SheetSet ==
    {Sheet(n, rows) : n \in SheetNames,
                      rows \in { <<>>, <<Row(<<X>>)>>, <<Row(<<X, Y>>), Row(<<>>)>>,
                                 <<[Row(<<X>>) EXCEPT !.err = TRUE]>> }}
    \cup {[Sheet(n, <<Row(<<X>>)>>) EXCEPT !.rowsErr = TRUE] : n \in SheetNames}

\* Sheet names are unique within a workbook.
Workbooks ==
    {sheets \in SeqsUpTo(SheetSet, MaxSheets) :
        \A i, j \in 1..Len(sheets) : i # j => sheets[i].name # sheets[j].name}

ExcelDocs == {Garbage} \cup {[kind |-> "xlsx", sheets |-> w] : w \in Workbooks}

PageSet ==
    {[null |-> TRUE, texts |-> <<A>>],
     [null |-> FALSE, texts |-> <<>>],
     [null |-> FALSE, texts |-> <<A>>],
     [null |-> FALSE, texts |-> << <<SPACE, 97, SPACE>>, <<SPACE>>, <<26085>>, <<26085>> >>]}

PdfDocs == {Garbage} \cup {[kind |-> "pdf", pages |-> ps] : ps \in SeqsUpTo(PageSet, MaxPages)}

\* The lengths around the limit of 100 MiB, for a text starting with t.
TextFills(t) == {0, maxSize - Len(t) - 1, maxSize - Len(t), maxSize - Len(t) + 1}

TextDocs ==
    UNION {{[kind |-> "text", data |-> t, fill |-> n, readErr |-> e] :
               n \in TextFills(t), e \in BOOLEAN} :
           t \in SeqsUpTo({97, LF}, MaxData)}

DocsFor(p) ==
    CASE p = "DOCXParser" -> DocxDocs
      [] p = "PPTXParser" -> PptxDocs
      [] p = "PDFParser" -> PdfDocs
      [] p = "ExcelParser" -> ExcelDocs
      [] p = "TextParser" -> TextDocs

----------------------------------------------------------------------------
(* SpecParse: the entry points of one parser applied to one document *)

Methods == {"ParseFromReader", "ParseFromBytes", "ParseFromFile", "ParseWithPages"}

TextIdle ==
    /\ text = <<>>
    /\ fn = "none"
    /\ arg = <<>>
    /\ ret = <<>>
    /\ calls = 0

InitParse ==
    /\ parser \in Parsers
    /\ doc \in DocsFor(parser)
    /\ res = [m \in Methods |-> NotCalled]
    /\ visit = [done |-> FALSE, keys |-> <<>>]
    /\ readAt = 0
    /\ TextIdle
    /\ RouterIdle

\* The other parsers hand the reader to a library.
CallParseFromReader ==
    /\ ~res["ParseFromReader"].called
    /\ res' = [res EXCEPT !["ParseFromReader"] = ParseFromReader(parser, doc)]
    /\ readAt' = IF parser = "TextParser"
                 THEN readAt + TextParser_ReadAtCalls(doc)
                 ELSE readAt
    /\ UNCHANGED <<parser, doc, visit, textVars, routerVars>>

CallParseFromBytes ==
    /\ ~res["ParseFromBytes"].called
    /\ res' = [res EXCEPT !["ParseFromBytes"] = ParseFromBytes(parser, doc)]
    /\ UNCHANGED <<parser, doc, visit, readAt, textVars, routerVars>>

CallParseFromFile ==
    /\ ~res["ParseFromFile"].called
    /\ \E file \in FileStates :
           res' = [res EXCEPT !["ParseFromFile"] = ParseFromFile(parser, doc, file)]
    /\ UNCHANGED <<parser, doc, visit, readAt, textVars, routerVars>>

\* Only ExcelParser declares ParseWithPages.
CallParseWithPages ==
    /\ parser = "ExcelParser"
    /\ ~res["ParseWithPages"].called
    /\ res' = [res EXCEPT !["ParseWithPages"] = ExcelParser_ParseWithPages(doc)]
    /\ UNCHANGED <<parser, doc, visit, readAt, textVars, routerVars>>

Perms(S) == {f \in [1..Cardinality(S) -> S] : \A x \in S : \E i \in DOMAIN f : f[i] = x}

\* A caller ranges over the returned map: Go leaves the order of the keys
\* unspecified.
RangePages ==
    /\ res["ParseWithPages"].called
    /\ res["ParseWithPages"].err = ErrNil
    /\ ~visit.done
    /\ \E order \in Perms(DOMAIN res["ParseWithPages"].pages) :
           visit' = [done |-> TRUE, keys |-> order]
    /\ UNCHANGED <<parser, doc, res, readAt, textVars, routerVars>>

NextParse ==
    \/ CallParseFromReader
    \/ CallParseFromBytes
    \/ CallParseFromFile
    \/ CallParseWithPages
    \/ RangePages

SpecParse == InitParse /\ [][NextParse]_vars

----------------------------------------------------------------------------
(* SpecRouter: the methods of one DocumentParserFactory *)

\* Discriminators: each base in lower case, in upper case and capitalised,
\* with and without the leading ".".
ExtBases ==
    { <<112, 100, 102>>,                    \* "pdf"
      <<100, 111, 99, 120>>,                \* "docx"
      <<116, 120, 116>>,                    \* "txt"
      <<114>>,                              \* "r"
      <<120, 108, 115, 120>>,               \* "xlsx"
      <<112, 112, 116>>,                    \* "ppt"
      <<99, 117, 115, 116, 111, 109>>,      \* "custom"
      <<120, 121, 122>>,                    \* "xyz"
      <<101, 120, 101>>,                    \* "exe"
      <<46, 112, 100, 102>>,                \* ".pdf" (".." + "pdf" with the dot added)
      <<>> }                                \* ""

ToUpperRune(r) == IF r >= 97 /\ r <= 122 THEN r - 32 ELSE r

CaseVariants(b) ==
    {b,
     [k \in 1..Len(b) |-> ToUpperRune(b[k])],
     [k \in 1..Len(b) |-> IF k = 1 THEN ToUpperRune(b[k]) ELSE b[k]]}

ExtInputs == UNION {{c, Dot \o c} : c \in UNION {CaseVariants(b) : b \in ExtBases}}

\* File paths with the discriminator e as their extension, and one without
\* an extension of its own.
PathsFor(e) ==
    LET dotted == IF HasPrefix(e, Dot) THEN e ELSE Dot \o e
    IN  {<<97>> \o dotted,                     \* "a" + extension
         <<98, 46, 99, 47, 97>> \o dotted,     \* "b.c/a" + extension
         <<98, 46, 99, 47, 97>>}               \* "b.c/a"

\* Documents of the format a built-in parser type reads.
RouterDocs(p) ==
    CASE p = "DOCXParser" ->
             {Garbage, Zip(<<>>), Zip(<<DocEntry(HelloRoot)>>),
              Zip(<<DocEntry(Elem("document",
                        <<Elem("body", <<P(<<A>>), P(<<>>), Table2x2>>)>>))>>)}
      [] p = "TextParser" ->
             {[kind |-> "text", data |-> <<>>, fill |-> 0, readErr |-> FALSE],
              [kind |-> "text", data |-> <<97, LF>>, fill |-> 0, readErr |-> FALSE],
              [kind |-> "text", data |-> <<97, LF>>, fill |-> 0, readErr |-> TRUE],
              [kind |-> "text", data |-> <<97>>, fill |-> maxSize - 1, readErr |-> FALSE],
              [kind |-> "text", data |-> <<97>>, fill |-> maxSize, readErr |-> FALSE]}
      [] p = "ExcelParser" ->
             {Garbage, [kind |-> "xlsx", sheets |-> <<>>],
              [kind |-> "xlsx",
               sheets |-> <<Sheet(<<65>>, <<Row(<<X, Y>>)>>), Sheet(<<66>>, <<>>)>>]}
      [] p = "PPTXParser" ->
             {Garbage, Zip(<<SlideFile(NameSlide1, ShapesA), SlideFile(NameSlide2, <<>>)>>)}
      [] p = "PDFParser" ->
             {Garbage, [kind |-> "pdf", pages |-> <<[null |-> FALSE, texts |-> <<A>>]>>]}

\* The documents passed with the discriminator e: of the format e names.
DocsForExt(e) ==
    LET g == GetParser(NewDocumentParserFactory, e)
    IN  IF g.err = ErrNil THEN RouterDocs(g.parser) ELSE {Garbage}

NoCall ==
    [op |-> "none", arg |-> <<>>, file |-> "ok",
     parser |-> "nil", err |-> ErrNil, out |-> NotCalled, exts |-> {}]

\* A call recorded: op(arg, doc), arg the discriminator, or op(arg), arg the
\* path of a file in state file holding doc, returned out.
ParseCall(op, a, file, out) ==
    [op |-> op, arg |-> a, file |-> file,
     parser |-> "nil", err |-> out.err, out |-> out, exts |-> {}]

InitRouter ==
    /\ discr \in ExtInputs
    /\ doc \in DocsForExt(discr)
    /\ parsers = NewDocumentParserFactory
    /\ regs = 0
    /\ lastCall = NoCall
    /\ parser = "none"
    /\ res = "none"
    /\ visit = "none"
    /\ readAt = 0
    /\ TextIdle

routerFrame == <<discr, parsers, regs, textVars, parseVars>>

CallGetParser ==
    /\ LET g == GetParser(parsers, discr)
       IN  lastCall' = [NoCall EXCEPT !.op = "GetParser", !.arg = discr,
                                     !.parser = g.parser, !.err = g.err]
    /\ UNCHANGED routerFrame

CallRegisterParser ==
    /\ regs < MaxRegs
    /\ \E p \in CustomParsers \cup {"PDFParser"} :
           /\ parsers' = RegisterParser(parsers, p)
           /\ lastCall' = [NoCall EXCEPT !.op = "RegisterParser", !.parser = p]
    /\ regs' = regs + 1
    /\ UNCHANGED <<discr, textVars, parseVars>>

CallFactorySupportedExtensions ==
    /\ lastCall' = [NoCall EXCEPT !.op = "SupportedExtensions",
                                  !.exts = Factory_SupportedExtensions(parsers)]
    /\ UNCHANGED routerFrame

CallFactoryParseFromFile ==
    /\ \E path \in PathsFor(discr) : \E file \in FileStates :
           lastCall' = ParseCall("ParseFromFile", path, file,
                                 Factory_ParseFromFile(parsers, path, doc, file))
    /\ UNCHANGED routerFrame

CallFactoryParseFromBytes ==
    /\ lastCall' = ParseCall("ParseFromBytes", discr, "ok",
                             Factory_ParseFromBytes(parsers, discr, doc))
    /\ UNCHANGED routerFrame

CallFactoryParseFromReader ==
    /\ lastCall' = ParseCall("ParseFromReader", discr, "ok",
                             Factory_ParseFromReader(parsers, discr, doc))
    /\ UNCHANGED routerFrame

CallFactoryParseFromFileWithPages ==
    /\ \E path \in PathsFor(discr) : \E file \in FileStates :
           lastCall' = ParseCall("ParseFromFileWithPages", path, file,
                                 Factory_ParseFromFileWithPages(parsers, path, doc, file))
    /\ UNCHANGED routerFrame

CallFactoryParseFromBytesWithPages ==
    /\ lastCall' = ParseCall("ParseFromBytesWithPages", discr, "ok",
                             Factory_ParseFromBytesWithPages(parsers, discr, doc))
    /\ UNCHANGED routerFrame

CallFactoryParseFromReaderWithPages ==
    /\ lastCall' = ParseCall("ParseFromReaderWithPages", discr, "ok",
                             Factory_ParseFromReaderWithPages(parsers, discr, doc))
    /\ UNCHANGED routerFrame

NextRouter ==
    \/ CallGetParser
    \/ CallRegisterParser
    \/ CallFactorySupportedExtensions
    \/ CallFactoryParseFromFile
    \/ CallFactoryParseFromBytes
    \/ CallFactoryParseFromReader
    \/ CallFactoryParseFromFileWithPages
    \/ CallFactoryParseFromBytesWithPages
    \/ CallFactoryParseFromReaderWithPages

SpecRouter == InitRouter /\ [][NextRouter]_vars

----------------------------------------------------------------------------
(* Properties of the text sanitizer *)

\* The CJK code points as the specification lists them.
CJKCodePoints == (12352..12447) \cup (12448..12543) \cup (19968..40879)

\* The full-width code points as the specification lists them: U+FF01..U+FF5E.
FullWidthCodePoints == 65281..65374

\* C1: sanitizeText is idempotent: applied to its own result, sanitizeText
\* returns that result unchanged.
C1_SanitizeIdempotent ==
    (fn = "sanitizeText" /\ calls >= 2) => ret = arg

\* C7: for an input made only of CJK characters and spaces, the result of
\* sanitizeText contains no space.
C7_CJKOnlyInputSpaceFree ==
    (/\ fn = "sanitizeText"
     /\ calls = 1
     /\ \A i \in 1..Len(arg) : arg[i] = SPACE \/ arg[i] \in CJKCodePoints)
    => \A i \in 1..Len(ret) : ret[i] # SPACE

\* The positions of s holding a space with a CJK character immediately
\* before and immediately after it.
C8_Removed(s) ==
    {i \in 1..Len(s) :
        /\ s[i] = SPACE
        /\ i > 1 /\ s[i - 1] \in CJKCodePoints
        /\ i < Len(s) /\ s[i + 1] \in CJKCodePoints}

\* C8: removeJapaneseSpaces drops exactly the spaces whose two neighbours in
\* the input are CJK, and keeps every other character in its original order.
C8_RemovesExactlyCJKSpaces ==
    fn = "removeJapaneseSpaces" =>
        LET removed == C8_Removed(arg)
        IN  /\ Len(ret) = Len(arg) - Cardinality(removed)
            /\ \A i \in (1..Len(arg)) \ removed :
                   ret[i - Cardinality({j \in removed : j < i})] = arg[i]

\* C8 witness: the space between two CJK characters was removed and the
\* leading space, which has a CJK character on one side only, was kept.
C8_Witness ==
    /\ fn = "removeJapaneseSpaces"
    /\ arg = <<SPACE, 26085, SPACE, 26085>>
    /\ ret = <<SPACE, 26085, 26085>>

\* C9: convertFullWidthToHalfWidth maps each code point c of U+FF01..U+FF5E to
\* c - 0xFF00 + 0x20 (in U+0021..U+007E), leaves every other code point
\* unchanged, and keeps the number and order of code points.
C9_FoldsFullWidthOnly ==
    fn = "convertFullWidthToHalfWidth" =>
        /\ Len(ret) = Len(arg)
        /\ \A i \in 1..Len(arg) :
               IF arg[i] \in FullWidthCodePoints
               THEN ret[i] = arg[i] - 65280 + 32 /\ ret[i] \in 33..126
               ELSE ret[i] = arg[i]

\* C9 witness: full-width A, 1, ! became "A1!".
C9_Witness ==
    /\ fn = "convertFullWidthToHalfWidth"
    /\ arg = <<65313, 65297, 65281>>
    /\ ret = <<65, 49, 33>>

----------------------------------------------------------------------------
(* Properties of the parsers *)

PFR == "ParseFromReader"

\* C2: for every parser and document, ParseFromBytes on the bytes and
\* ParseFromFile on a file holding them return the same text and the same
\* success or failure as the parser's ParseFromReader.
C2_EntryPointsAgree ==
    \A m \in {"ParseFromBytes", "ParseFromFile"} :
        (/\ res[m].called
         /\ res[PFR].called
         /\ res[m].err \notin {ErrOpenFile, ErrStat})
        => /\ res[m].text = res[PFR].text
           /\ (res[m].err = ErrNil) <=> (res[PFR].err = ErrNil)

\* A word-processing package holding only a readable word/document.xml whose
\* root holds only the body and whose body holds only paragraphs.
C3_ParagraphsOnly(d) ==
    /\ d.kind = "zip"
    /\ Len(d.files) = 1
    /\ d.files[1].name = NameDocumentXml
    /\ d.files[1].open /\ d.files[1].read /\ d.files[1].wellFormed
    /\ Len(d.files[1].root.kids) = 1
    /\ d.files[1].root.kids[1].tag = "body"
    /\ \A k \in 1..Len(d.files[1].root.kids[1].kids) :
           d.files[1].root.kids[1].kids[k].tag = "p"

LineCount(t) == Cardinality({i \in 1..Len(t) : t[i] = LF})

\* C3: word-processing extraction yields exactly one output line per body
\* paragraph, empty paragraphs included.
C3_EmptyParagraphsPreserved ==
    (/\ parser = "DOCXParser"
     /\ res[PFR].called
     /\ C3_ParagraphsOnly(doc))
    => /\ res[PFR].err = ErrNil
       /\ LineCount(res[PFR].text) = Len(doc.files[1].root.kids[1].kids)

\* A sheet from which no row can be read.
C4_NoRows(sheet) ==
    sheet.rowsErr \/ \A k \in 1..Len(sheet.rows) : sheet.rows[k].err

\* C4: spreadsheet extraction of a workbook in which every sheet yields zero
\* rows fails with "no data found", for ParseFromReader and ParseWithPages.
C4_EmptyWorkbookFails ==
    (/\ parser = "ExcelParser"
     /\ doc.kind = "xlsx"
     /\ \A k \in 1..Len(doc.sheets) : C4_NoRows(doc.sheets[k]))
    => \A m \in {PFR, "ParseWithPages"} :
           res[m].called => res[m].err = ErrNoData

\* C5: word-processing extraction of a readable package without an entry
\* named word/document.xml returns a failure.
C5_MissingDocumentFails ==
    (/\ parser = "DOCXParser"
     /\ doc.kind = "zip"
     /\ \A k \in 1..Len(doc.files) : doc.files[k].name # NameDocumentXml
     /\ res[PFR].called)
    => res[PFR].err # ErrNil

\* The names of the sheets whose rows can be opened, in workbook order.
C6_SourceOrder(sheets) ==
    LET readable == SelectSeq(sheets, LAMBDA sh : ~sh.rowsErr)
    IN  [k \in 1..Len(readable) |-> readable[k].name]

\* C6: iterating the section map of a spreadsheet visits the sheets in source
\* order, and the sections joined with the headers and separators of the
\* whole-text operation equal the whole-text operation's output.
C6_SectionsRoundTrip ==
    (/\ parser = "ExcelParser"
     /\ visit.done
     /\ res[PFR].called
     /\ res[PFR].err = ErrNil)
    => /\ visit.keys = C6_SourceOrder(doc.sheets)
       /\ ConcatAll([k \in 1..Len(visit.keys) |->
                        HeaderSheet \o visit.keys[k] \o <<LF>>
                        \o res["ParseWithPages"].pages[visit.keys[k]] \o SheetRule])
          = res[PFR].text

\* A slide entry name as the specification describes it.
C10_SlideName(name) ==
    /\ \E rest \in {SubSeq(name, Len(PrefixSlide) + 1, Len(name))} :
           name = PrefixSlide \o rest
    /\ \E k \in 0..Len(name) : name = SubSeq(name, 1, k) \o SuffixXml
    /\ \A w \in {WordLayout, WordMaster} :
           \A i \in 1..(Len(name) - Len(w) + 1) : SubSeq(name, i, i + Len(w) - 1) # w

\* The number of lines of t that start with "## Slide ".
C10_Sections(t) ==
    Cardinality({i \in 1..Len(t) :
        /\ i = 1 \/ t[i - 1] = LF
        /\ Len(t) >= i + Len(HeaderSlide) - 1
        /\ SubSeq(t, i, i + Len(HeaderSlide) - 1) = HeaderSlide})

\* C10: presentation extraction succeeds on a readable archive and emits one
\* `## Slide` section per decodable entry whose name is a slide name, and
\* none for any other entry, whatever it contains.
C10_OnlySlideFilesGetSections ==
    (/\ parser = "PPTXParser"
     /\ res[PFR].called
     /\ doc.kind = "zip")
    => /\ res[PFR].err = ErrNil
       /\ C10_Sections(res[PFR].text) =
              Cardinality({k \in 1..Len(doc.files) :
                  /\ C10_SlideName(doc.files[k].name)
                  /\ doc.files[k].open /\ doc.files[k].read /\ doc.files[k].wellFormed})

\* C10 witness: slide1.xml, slide2.xml and slideLayout1.xml gave two sections.
C10_Witness ==
    /\ parser = "PPTXParser"
    /\ doc = Zip(<<SlideFile(NameSlide1, ShapesA), SlideFile(NameSlide2, ShapesTwo),
                   SlideFile(NameSlideLayout1, ShapesA)>>)
    /\ res[PFR].called
    /\ C10_Sections(res[PFR].text) = 2

\* The entries of the archive that are slides and could be decoded, in
\* archive order.
C11_Emitted(files) ==
    SelectSeq(files, LAMBDA f : C10_SlideName(f.name) /\ f.open /\ f.read /\ f.wellFormed)

\* The non-empty paragraph texts of a slide, in order, one per line.
C11_Body(shapes) ==
    LET paragraphs == ConcatAll(shapes)
        lines == SelectSeq([k \in 1..Len(paragraphs) |-> ConcatAll(paragraphs[k])],
                           LAMBDA t : t # <<>>)
    IN  IF lines = <<>> THEN NoTextFound ELSE Join(lines, <<LF>>)

\* C11: the presentation output is, for the k-th emitted slide (k from 1, in
\* archive encounter order, whatever number its file name holds), the line
\* `## Slide k`, then the slide's text or "(No text found)" when it has none,
\* then a blank line.
C11_SlidesNumberedInEncounterOrder ==
    (/\ parser = "PPTXParser"
     /\ res[PFR].called
     /\ doc.kind = "zip")
    => LET emitted == C11_Emitted(doc.files)
       IN  res[PFR].text =
               ConcatAll([k \in 1..Len(emitted) |->
                   HeaderSlide \o Itoa(k) \o <<LF>>
                   \o C11_Body(emitted[k].shapes) \o <<LF, LF>>])

\* C11 witness: slide2.xml came first and is "Slide 1"; slide1.xml, which
\* has no text, is "Slide 2" with the placeholder.
C11_Witness ==
    /\ parser = "PPTXParser"
    /\ doc = Zip(<<SlideFile(NameSlideLayout1, ShapesA), SlideFile(NameSlide2, ShapesTwo),
                   SlideFile(NameSlide1, <<>>)>>)
    /\ res[PFR].called
    /\ res[PFR].text =
           HeaderSlide \o <<49, LF>> \o <<97, 98, LF, 98>> \o <<LF, LF>>
           \o HeaderSlide \o <<50, LF>> \o NoTextFound \o <<LF, LF>>

\* C12: TextParser.ParseFromBytes and TextParser.ParseFromReader fail with the
\* size error for every input of more than 100*1024*1024 bytes and return the
\* whole input for a readable input of at most that size, 100 MiB included;
\* ParseFromReader rejects an oversized input without calling ReadAt.
C12_SizeCeiling ==
    parser = "TextParser" =>
        LET size == Len(doc.data) + doc.fill
            limit == 104857600
        IN  /\ \A m \in {PFR, "ParseFromBytes"} :
                   res[m].called =>
                       IF size > limit
                       THEN res[m].err = ErrTooLarge
                       ELSE IF m = PFR /\ doc.readErr
                       THEN res[m].err = ErrReadText
                       ELSE /\ res[m].err = ErrNil
                            /\ res[m].text = doc.data
                            /\ res[m].fill = doc.fill
            /\ (res[PFR].called /\ size > limit) => readAt = 0

\* C12 witness: 100 MiB + 1 byte was rejected by both operations, with no
\* read of the source.
C12_Witness ==
    /\ parser = "TextParser"
    /\ Len(doc.data) + doc.fill = 104857601
    /\ res[PFR].err = ErrTooLarge
    /\ res["ParseFromBytes"].err = ErrTooLarge
    /\ readAt = 0

\* C12 witness: exactly 100 MiB was returned whole by both operations.
C12_WitnessAtLimit ==
    /\ parser = "TextParser"
    /\ Len(doc.data) + doc.fill = 104857600
    /\ res[PFR].called /\ res[PFR].err = ErrNil
    /\ res["ParseFromBytes"].called /\ res["ParseFromBytes"].err = ErrNil
    /\ res[PFR].fill = doc.fill
    /\ readAt = 1

\* The pieces of s between the occurrences of the character c.
RECURSIVE Split(_, _)
Split(s, c) ==
    IF \A i \in 1..Len(s) : s[i] # c THEN <<s>>
    ELSE LET i == CHOOSE i \in 1..Len(s) : s[i] = c /\ \A j \in 1..(i - 1) : s[j] # c
         IN  <<SubSeq(s, 1, i - 1)>> \o Split(SubSeq(s, i + 1, Len(s)), c)

\* The lines of t, each taken without the newline that ends it.
Lines(t) ==
    IF t = <<>> THEN <<>>
    ELSE LET parts == Split(t, LF) IN SubSeq(parts, 1, Len(parts) - 1)

\* A package holding only a readable word/document.xml whose body holds
\* exactly one table and nothing else.
C15_OneTable(d) ==
    /\ d.kind = "zip"
    /\ Len(d.files) = 1
    /\ d.files[1].name = NameDocumentXml
    /\ d.files[1].open /\ d.files[1].read /\ d.files[1].wellFormed
    /\ Len(d.files[1].root.kids) = 1
    /\ d.files[1].root.kids[1].tag = "body"
    /\ Len(d.files[1].root.kids[1].kids) = 1
    /\ d.files[1].root.kids[1].kids[1].tag = "tbl"

\* The non-empty paragraph texts of a row, cell by cell.
C15_RowTexts(row) ==
    LET paragraphs == ConcatAll(row)
    IN  SelectSeq([k \in 1..Len(paragraphs) |-> ConcatAll(paragraphs[k].runs)],
                  LAMBDA t : t # <<>>)

\* C15: a table is written as one line per row that has a non-empty paragraph
\* text, rows in source order: the row's non-empty paragraph texts in cell
\* order with one tab between them, then a newline; a row without text
\* writes nothing.
C15_TableRowsTabJoined ==
    (/\ parser = "DOCXParser"
     /\ res[PFR].called
     /\ C15_OneTable(doc))
    => LET rows == doc.files[1].root.kids[1].kids[1].rows
           kept == SelectSeq(rows, LAMBDA row : C15_RowTexts(row) # <<>>)
           out == res[PFR].text
       IN  /\ res[PFR].err = ErrNil
           /\ out = <<>> \/ out[Len(out)] = LF
           /\ Len(Lines(out)) = Len(kept)
           /\ \A k \in 1..Len(kept) : Split(Lines(out)[k], TAB) = C15_RowTexts(kept[k])

\* C15 witness: a row without text wrote nothing and the next row, with the
\* paragraphs "a", "b" in one cell, an empty cell and "ab", wrote "a\tb\tab\n".
C15_Witness ==
    /\ parser = "DOCXParser"
    /\ C15_OneTable(doc)
    /\ doc.files[1].root.kids[1].kids[1].rows =
           << << <<P(<<>>)>> >>,
              << <<P(<<A>>), P(<<B>>)>>, <<P(<<>>)>>, <<P(<<A, B>>)>> >> >>
    /\ res[PFR].called
    /\ res[PFR].text = <<97, TAB, 98, TAB, 97, 98, LF>>

\* The lines of the block of one sheet: the header, one line per row that
\* could be read, an empty line, the rule and a blank line.
C16_Block(sheet) ==
    LET rows == SelectSeq(sheet.rows, LAMBDA row : ~row.err)
    IN  <<HeaderSheet \o sheet.name>>
        \o [k \in 1..Len(rows) |-> Join(rows[k].cols, CellSep)]
        \o << <<>>, <<45, 45, 45>>, <<>> >>

C17_ParagraphsAndTables(d) ==
    /\ d.kind = "zip"
    /\ Len(d.files) = 1
    /\ d.files[1].name = NameDocumentXml
    /\ d.files[1].open /\ d.files[1].read /\ d.files[1].wellFormed
    /\ Len(d.files[1].root.kids) = 1
    /\ d.files[1].root.kids[1].tag = "body"
    /\ \A k \in 1..Len(d.files[1].root.kids[1].kids) :
           d.files[1].root.kids[1].kids[k].tag \in {"p", "tbl"}

\* The lines one body element gives: the text of a paragraph, or one
\* tab-joined line per row of a table that has text.  blank tells whether a
\* paragraph without text gives a blank line or no line: that is C3's
\* matter, and C17 holds either way.
C17_ItemLines(item, blank) ==
    IF item.tag = "p"
    THEN IF ConcatAll(item.runs) = <<>> /\ ~blank THEN <<>> ELSE <<ConcatAll(item.runs)>>
    ELSE LET kept == SelectSeq(item.rows, LAMBDA row : C15_RowTexts(row) # <<>>)
         IN  [k \in 1..Len(kept) |-> Join(C15_RowTexts(kept[k]), <<TAB>>)]

C18_OneDocument(d) ==
    /\ d.kind = "zip"
    /\ Len(d.files) = 1
    /\ d.files[1].name = NameDocumentXml
    /\ d.files[1].open /\ d.files[1].read /\ d.files[1].wellFormed

\* The paragraphs and tables that are children of a body child of the root.
C18_BodyLevel(root) ==
    LET bodies == SelectSeq(root.kids, LAMBDA e : e.tag = "body")
    IN  ConcatAll([k \in 1..Len(bodies) |->
            SelectSeq(bodies[k].kids, LAMBDA e : e.tag \in {"p", "tbl"})])

\* C18: a body-level element that is neither a paragraph nor a table causes
\* no error and adds no text, whatever it holds, and neither does an element
\* outside the body: the output is the output of the body-level paragraphs
\* and tables alone.
C18_OtherElementsSkipped ==
    (/\ parser = "DOCXParser"
     /\ res[PFR].called
     /\ C18_OneDocument(doc))
    => /\ res[PFR].err = ErrNil
       /\ res[PFR].text =
              DOCXParser_ParseFromReader(
                  Zip(<<DocEntry(Elem("document",
                      <<Elem("body", C18_BodyLevel(doc.files[1].root))>>))>>)).text

\* A slide entry that cannot be opened, read or decoded.
C19_Unreadable(f) ==
    C10_SlideName(f.name) /\ ~(f.open /\ f.read /\ f.wellFormed)

\* C19: when a slide entry cannot be opened, read or decoded, presentation
\* extraction still succeeds; that slide gives no header and no text and
\* takes no slide number: the output is the output for the archive without
\* it, and its headers are `## Slide 1` .. `## Slide k` in this order, k the
\* number of slide entries that could be decoded.
C19_UnreadableSlidesSkipped ==
    (/\ parser = "PPTXParser"
     /\ res[PFR].called
     /\ doc.kind = "zip"
     /\ \E i \in 1..Len(doc.files) : C19_Unreadable(doc.files[i]))
    => LET readable == SelectSeq(doc.files, LAMBDA f : ~C19_Unreadable(f))
           k == Cardinality({i \in 1..Len(doc.files) :
                    /\ C10_SlideName(doc.files[i].name)
                    /\ ~C19_Unreadable(doc.files[i])})
           headers == SelectSeq(Lines(res[PFR].text), LAMBDA l : HasPrefix(l, HeaderSlide))
       IN  /\ res[PFR].err = ErrNil
           /\ headers = [n \in 1..k |-> HeaderSlide \o Itoa(n)]
           /\ res[PFR].text = PPTXParser_ParseFromReader(Zip(readable)).text

\* C19 witness: the first slide could not be opened; the two slides after it
\* are "Slide 1" and "Slide 2".
C19_Witness ==
    /\ parser = "PPTXParser"
    /\ doc = Zip(<<[SlideFile(NameSlide1, ShapesA) EXCEPT !.open = FALSE],
                   SlideFile(NameSlide2, ShapesTwo), SlideFile(NameSlide1, ShapesA)>>)
    /\ res[PFR].called
    /\ res[PFR].err = ErrNil
    /\ res[PFR].text =
           HeaderSlide \o <<49, LF>> \o <<97, 98, LF, 98>> \o <<LF, LF>>
           \o HeaderSlide \o <<50, LF>> \o <<97>> \o <<LF, LF>>

\* The indices in S in increasing order.
RECURSIVE Ascending(_)
Ascending(S) ==
    IF S = {} THEN <<>>
    ELSE LET min == CHOOSE i \in S : \A j \in S : i <= j
         IN  <<min>> \o Ascending(S \ {min})

\* The text of a page: its fragments trimmed, the empty ones dropped, joined
\* by one space and sanitized; empty for a page without such a fragment.
C20_PageText(page) ==
    LET trimmed == [k \in 1..Len(page.texts) |-> TrimSpace(page.texts[k])]
        kept == SelectSeq(trimmed, LAMBDA t : t # <<>>)
    IN  IF kept = <<>> THEN <<>> ELSE sanitizeText(Join(kept, <<SPACE>>))

\* C20: the output of a page document is, for each page i of 1..N whose
\* structural marker is not null, in increasing order of i, the line
\* `## Page i`, a blank line, the text of the page and a blank line; a null
\* page gives nothing and does not change the numbers of the later pages; a
\* page without text still gives its header and the blank lines.
C20_PagesAssembled ==
    (/\ parser = "PDFParser"
     /\ res[PFR].called
     /\ doc.kind = "pdf")
    => LET shown == Ascending({i \in 1..Len(doc.pages) : ~doc.pages[i].null})
       IN  /\ res[PFR].err = ErrNil
           /\ res[PFR].text =
                  ConcatAll([k \in 1..Len(shown) |->
                      HeaderPage \o Itoa(shown[k]) \o <<LF, LF>>
                      \o C20_PageText(doc.pages[shown[k]]) \o <<LF, LF>>])

\* C20 witness: page 1 is null and gives nothing; page 2 keeps the number 2
\* and its fragments " a ", " ", U+65E5, U+65E5 give "a" and the two
\* ideographs without the space between them.
C20_Witness ==
    /\ parser = "PDFParser"
    /\ doc = [kind |-> "pdf",
              pages |-> <<[null |-> TRUE, texts |-> <<A>>],
                          [null |-> FALSE,
                           texts |-> << <<SPACE, 97, SPACE>>, <<SPACE>>,
                                        <<26085>>, <<26085>> >>]>>]
    /\ res[PFR].called
    /\ res[PFR].text =
           HeaderPage \o <<50, LF, LF>> \o <<97, SPACE, 26085, 26085>> \o <<LF, LF>>

----------------------------------------------------------------------------
(* Properties of the router *)

\* a and b are the same character up to the case of an ASCII letter.
C13_SameLetter(a, b) ==
    \/ a = b
    \/ a \in 65..90 /\ b = a + 32
    \/ b \in 65..90 /\ a = b + 32

\* e with a leading "." if it has none.
C13_Dotted(e) == IF e # <<>> /\ e[1] = 46 THEN e ELSE <<46>> \o e

\* a and b differ only in the case of letters and in having the leading ".".
C13_SameDiscriminator(a, b) ==
    /\ Len(C13_Dotted(a)) = Len(C13_Dotted(b))
    /\ \A k \in 1..Len(C13_Dotted(a)) : C13_SameLetter(C13_Dotted(a)[k], C13_Dotted(b)[k])

\* n is the normalized form of e: lower-case and dot-prefixed.
C13_NormalForm(e, n) ==
    /\ C13_SameDiscriminator(e, n)
    /\ n # <<>> /\ n[1] = 46
    /\ \A k \in 1..Len(n) : n[k] \notin 65..90

\* C13: GetParser(e) returns the parser registered under the lower-case,
\* dot-prefixed form of e, fails with the unsupported-extension error exactly
\* when nothing is registered under that form, and gives the same outcome for
\* every variant of e in letter case and leading ".".
C13_LookupNormalizes ==
    lastCall.op = "GetParser" =>
        LET registered == {n \in DOMAIN parsers : C13_NormalForm(lastCall.arg, n)}
        IN  /\ IF registered = {}
               THEN lastCall.err = ErrUnsupported /\ lastCall.parser = "nil"
               ELSE /\ lastCall.err = ErrNil
                    /\ \A n \in registered : lastCall.parser = parsers[n]
            /\ \A v \in ExtInputs :
                   C13_SameDiscriminator(v, lastCall.arg) =>
                       GetParser(parsers, v) =
                           [parser |-> lastCall.parser, err |-> lastCall.err]

\* C13 witness: "Pdf", capitalised and without the ".", gave the parser
\* registered under ".pdf".
C13_Witness ==
    /\ lastCall.op = "GetParser"
    /\ lastCall.arg = <<80, 100, 102>>
    /\ regs = 0
    /\ lastCall.parser = "PDFParser"
    /\ lastCall.err = ErrNil

WithPagesOps == {"ParseFromFileWithPages", "ParseFromBytesWithPages", "ParseFromReaderWithPages"}

\* The discriminator of the last call: the extension of the path for the
\* operations on a file.
C14_Discriminator ==
    IF lastCall.op = "ParseFromFileWithPages"
    THEN getFileExtension(lastCall.arg)
    ELSE lastCall.arg

\* The whole-document operation of the router on the input of the last call.
C14_Whole ==
    CASE lastCall.op = "ParseFromFileWithPages" ->
             Factory_ParseFromFile(parsers, lastCall.arg, doc, lastCall.file)
      [] lastCall.op = "ParseFromBytesWithPages" ->
             Factory_ParseFromBytes(parsers, lastCall.arg, doc)
      [] lastCall.op = "ParseFromReaderWithPages" ->
             Factory_ParseFromReader(parsers, lastCall.arg, doc)

\* C14: on a word-processing or plain-text input that can be extracted, each
\* section operation of the router returns a map with the single key
\* "Content", whose value is the text the corresponding whole-document
\* operation returns on the same input.
C14_SingleContentSection ==
    (/\ lastCall.op \in WithPagesOps
     /\ lastCall.file = "ok"
     /\ GetParser(parsers, C14_Discriminator).parser \in {"DOCXParser", "TextParser"}
     /\ ParseFromReader(GetParser(parsers, C14_Discriminator).parser, doc).err = ErrNil)
    => /\ lastCall.out.err = ErrNil
       /\ DOMAIN lastCall.out.pages = {KeyContent}
       /\ C14_Whole.err = ErrNil
       /\ lastCall.out.pages[KeyContent] = C14_Whole.text
       /\ lastCall.out.fill = C14_Whole.fill

\* The extensions p declares.
C21_Declared(p) == {SupportedExtensions(p)[k] : k \in 1..Len(SupportedExtensions(p))}

\* The operations of the router that only read the mapping.
C21_ReadingOps ==
    {"GetParser", "SupportedExtensions", "ParseFromFile", "ParseFromBytes",
     "ParseFromReader"} \cup WithPagesOps

\* C21: the mapping of the router changes only through RegisterParser: a call
\* of GetParser, SupportedExtensions, ParseFromFile/Bytes/Reader or one of
\* the *WithPages operations, successful or failing, leaves it unchanged, and
\* RegisterParser(p) sets the entries of the extensions p declares to p,
\* replacing any earlier parser, and leaves every other entry unchanged.
C21_MappingChangesOnlyThroughRegisterParser ==
    [][/\ lastCall'.op \in C21_ReadingOps \cup {"RegisterParser"}
       /\ lastCall'.op \in C21_ReadingOps => parsers' = parsers
       /\ lastCall'.op = "RegisterParser" =>
              LET declared == C21_Declared(lastCall'.parser)
              IN  /\ DOMAIN parsers' = DOMAIN parsers \cup declared
                  /\ \A e \in declared : parsers'[e] = lastCall'.parser
                  /\ \A e \in DOMAIN parsers \ declared : parsers'[e] = parsers[e]]_vars

\* C21 witness: RegisterParser replaced the parser of ".pdf" and added ".XYZ"
\* next to the entries it left alone, and a failing ParseFromBytes after it
\* found the mapping as RegisterParser left it.
C21_Witness ==
    /\ regs = 1
    /\ lastCall.op = "ParseFromBytes"
    /\ lastCall.err # ErrNil
    /\ parsers[<<46, 112, 100, 102>>] = "CustomParserXYZ"
    /\ parsers[<<46, 88, 89, 90>>] = "CustomParserXYZ"
    /\ \A e \in DOMAIN NewDocumentParserFactory :
           e # <<46, 112, 100, 102>> => parsers[e] = NewDocumentParserFactory[e]
    /\ DOMAIN parsers = DOMAIN NewDocumentParserFactory \cup {<<46, 88, 89, 90>>}

\* p declares the extension e and is the parser last registered under e.
C22_Registered(p, e) ==
    /\ e \in C21_Declared(p)
    /\ e \in DOMAIN parsers
    /\ parsers[e] = p

\* C22: registration is observable through lookup: GetParser(e) returns p
\* for every extension e declared by a parser p that was registered, by
\* RegisterParser or by NewDocumentParserFactory, with no later registration
\* of e, whatever the letter case of e as p declares it.
C22_RegistrationObservable ==
    lastCall.op = "GetParser" =>
        \A p \in Parsers \cup CustomParsers :
            C22_Registered(p, lastCall.arg) =>
                lastCall.err = ErrNil /\ lastCall.parser = p

=============================================================================
